---------------------------- MODULE Spec2Model ----------------------------
(***************************************************************************)
(* A model of the autograder engine: the call planner and the harness      *)
(* synthesizer of grader.py, the answer-key build, the grading of a        *)
(* submission, the lab operations of backend.py and the shared random      *)
(* state of test_cases.py.                                                 *)
(*                                                                         *)
(* Text is modelled as text: a Python source line is a sequence of         *)
(* one-character strings, repr() and ast.literal_eval() are operators      *)
(* between values and such sequences, and str.replace(old, new, 1) works   *)
(* on the characters.                                                      *)
(***************************************************************************)
EXTENDS Integers, Sequences, FiniteSets, TLC

(***************************************************************************)
(* Bounds of the model.                                                    *)
(***************************************************************************)
\* Largest integer a literal or a generated number takes (one digit each).
MaxNum == 2
\* Largest total_tests a generator config of the model asks for.
MaxTotalTests == 2

(***************************************************************************)
(* Python values.  Every value is a record of one shape: k is the kind,    *)
(* n the number (or 1/0 for True/False), e the elements of a list of       *)
(* numbers.                                                                *)
(***************************************************************************)
Num(i) == [k |-> "num",  n |-> i, e |-> <<>>]
Bool(b) == [k |-> "bool", n |-> IF b THEN 1 ELSE 0, e |-> <<>>]
NoneVal == [k |-> "none", n |-> 0, e |-> <<>>]
List(s) == [k |-> "list", n |-> 0, e |-> s]
\* A value ast.literal_eval() does not accept (float('nan'), an object, ...).
Opaque == [k |-> "opaque", n |-> 0, e |-> <<>>]
\* What a failed ast.literal_eval() stands for: the exception it raises.
ParseError == [k |-> "error", n |-> 0, e |-> <<>>]

DigitChars == <<"0", "1", "2", "3", "4", "5", "6", "7", "8", "9">>
Digit(i) == DigitChars[i + 1]
IsDigit(c) == \E i \in 1..Len(DigitChars) : DigitChars[i] = c
DigitValue(c) == (CHOOSE i \in 1..Len(DigitChars) : DigitChars[i] = c) - 1

RECURSIVE JoinText(_, _)
\* sep.join(parts)
JoinText(parts, sep) ==
    IF parts = <<>> THEN <<>>
    ELSE IF Len(parts) = 1 THEN parts[1]
    ELSE parts[1] \o sep \o JoinText(Tail(parts), sep)

\* repr(value)
Repr(v) ==
    CASE v.k = "num"  -> <<Digit(v.n)>>
      [] v.k = "bool" -> IF v.n = 1 THEN <<"T", "r", "u", "e">>
                                    ELSE <<"F", "a", "l", "s", "e">>
      [] v.k = "none" -> <<"N", "o", "n", "e">>
      [] v.k = "list" -> <<"[">> \o JoinText([i \in 1..Len(v.e) |-> <<Digit(v.e[i])>>],
                                            <<",", " ">>) \o <<"]">>
      [] OTHER        -> <<"n", "a", "n">>

\* text.find(needle) + 1: the first place needle occurs in text, 0 when none.
IndexOf(text, needle) ==
    LET n == Len(needle)
        hits == {i \in 1..(Len(text) - n + 1) : SubSeq(text, i, i + n - 1) = needle}
    IN  IF hits = {} THEN 0 ELSE CHOOSE i \in hits : \A j \in hits : i <= j

\* text.replace(old, new, 1)
ReplaceFirst(text, old, new) ==
    LET i == IndexOf(text, old)
    IN  IF i = 0 THEN text
        ELSE SubSeq(text, 1, i - 1) \o new \o SubSeq(text, i + Len(old), Len(text))

RECURSIVE SplitTop(_, _, _, _)
\* The pieces of text between the commas that stand outside every bracket.
SplitTop(text, depth, cur, acc) ==
    IF text = <<>> THEN Append(acc, cur)
    ELSE LET c == Head(text)
         IN  IF c = "," /\ depth = 0
             THEN SplitTop(Tail(text), depth, <<>>, Append(acc, cur))
             ELSE SplitTop(Tail(text),
                           IF c = "[" THEN depth + 1
                           ELSE IF c = "]" THEN depth - 1 ELSE depth,
                           Append(cur, c), acc)

\* text.strip() of the blank a list literal puts after each comma.
StripLeft(text) ==
    IF text # <<>> /\ Head(text) = " " THEN Tail(text) ELSE text


\* ast.literal_eval(text) for the literals of the model: a digit, True, False,
\* None, or a list of digits; anything else raises.
LiteralEval(text) ==
    IF Len(text) = 1 /\ IsDigit(text[1]) THEN Num(DigitValue(text[1]))
    ELSE IF text = <<"T", "r", "u", "e">> THEN Bool(TRUE)
    ELSE IF text = <<"F", "a", "l", "s", "e">> THEN Bool(FALSE)
    ELSE IF text = <<"N", "o", "n", "e">> THEN NoneVal
    ELSE IF Len(text) >= 2 /\ text[1] = "[" /\ text[Len(text)] = "]"
    THEN LET inner == SubSeq(text, 2, Len(text) - 1)
             parts == IF inner = <<>> THEN <<>>
                      ELSE LET raw == SplitTop(inner, 0, <<>>, <<>>)
                           IN  [i \in 1..Len(raw) |-> StripLeft(raw[i])]
         IN  IF \A i \in 1..Len(parts) : Len(parts[i]) = 1 /\ IsDigit(parts[i][1])
             THEN List([i \in 1..Len(parts) |-> DigitValue(parts[i][1])])
             ELSE ParseError
    ELSE ParseError

(***************************************************************************)
(* The planner's names.  A parameter name and a method name are texts; the *)
(* harness binds the tracked parameter p to the variable _p.               *)
(***************************************************************************)
\* f"_{param_name}"
VarName(name) == <<"_">> \o name

\* The names the synthesized program keeps for itself: _results, the list of
\* the records, and _ret, the value a tracked call returned.
ResultsName == <<"_", "r", "e", "s", "u", "l", "t", "s">>
RetName == <<"_", "r", "e", "t">>

\* f"{method}({','.join(args)})"
CallText(method, args) == method \o <<"(">> \o JoinText(args, <<",">>) \o <<")">>

(***************************************************************************)
(* The Python the harness runs.  The variables of the synthesized program  *)
(* are a function from the bound names to their values; an argument of a   *)
(* call is a name, a literal, or a list display whose elements are names   *)
(* and digits.                                                             *)
(***************************************************************************)
IsName(text) == text # <<>> /\ text[1] = "_"

\* The value of one element of a list display: a number, or -1 when the
\* element is no number (a NameError, a SyntaxError, or a nested object the
\* model's lists do not hold).
ElementValue(text, env) ==
    IF IsName(text)
    THEN IF text \in DOMAIN env /\ env[text].k = "num" THEN env[text].n ELSE -1
    ELSE IF Len(text) = 1 /\ IsDigit(text[1]) THEN DigitValue(text[1]) ELSE -1

\* The evaluation of an argument expression: ok (no exception), the value, and
\* ref, the variable the argument object is bound to (<<>> for a temporary).
EvalArg(text, env) ==
    IF IsName(text)
    THEN IF text \in DOMAIN env
         THEN [ok |-> TRUE, val |-> env[text], ref |-> text]
         ELSE [ok |-> FALSE, val |-> ParseError, ref |-> <<>>]
    ELSE IF Len(text) >= 2 /\ text[1] = "[" /\ text[Len(text)] = "]"
    THEN LET inner == SubSeq(text, 2, Len(text) - 1)
             parts == IF inner = <<>> THEN <<>>
                      ELSE LET raw == SplitTop(inner, 0, <<>>, <<>>)
                           IN  [i \in 1..Len(raw) |-> StripLeft(raw[i])]
             elems == [i \in 1..Len(parts) |-> ElementValue(parts[i], env)]
         IN  IF \A i \in 1..Len(elems) : elems[i] >= 0
             THEN [ok |-> TRUE, val |-> List(elems), ref |-> <<>>]
             ELSE [ok |-> FALSE, val |-> ParseError, ref |-> <<>>]
    ELSE LET v == LiteralEval(text)
         IN  [ok |-> v # ParseError, val |-> v, ref |-> <<>>]

\* A call expression read as Python reads it: the name before the first "(",
\* and the argument expressions between it and the closing ")".
ParseCall(line) ==
    LET open == IndexOf(line, <<"(">>)
    IN  IF open <= 1 \/ line[Len(line)] # ")"
        THEN [ok |-> FALSE, method |-> <<>>, args |-> <<>>]
        ELSE LET inner == SubSeq(line, open + 1, Len(line) - 1)
             IN  [ok |-> TRUE,
                  method |-> SubSeq(line, 1, open - 1),
                  args |-> IF inner = <<>> THEN <<>>
                           ELSE SplitTop(inner, 0, <<>>, <<>>)]

(***************************************************************************)
(* The value generator, as far as the planner sees it: the lists one call  *)
(* can return.  random is not seeded by the Grader, so every draw is free. *)
(***************************************************************************)
\* The sequences of k distinct members of S.
InjSeqs(S, k) ==
    {s \in [1..k -> S] : \A i, j \in 1..k : s[i] = s[j] => i = j}

\* What generate_num(lower, upper, None, exclude, total_tests) can return: up
\* to total_tests distinct admissible integers.  The first draw lands in
\* lower..upper, so the list is empty only when total_tests is 0 or every draw
\* of the 100 * total_tests attempts hit an excluded value.
GenerateNum(lower, upper, exclude, total_tests) ==
    LET admissible == (lower..upper) \ exclude
        least == IF total_tests = 0 \/ (lower..upper) \cap exclude # {} THEN 0 ELSE 1
    IN  UNION {{[i \in 1..k |-> Num(s[i])] : s \in InjSeqs(admissible, k)} :
               k \in least..total_tests}

\* What generate_bool_or_none(...) can return: total_tests draws, with
\* replacement, from the enabled values; nothing when none is enabled.
GenerateBoolOrNone(pool, total_tests) ==
    IF pool = {} THEN {<<>>} ELSE [1..total_tests -> pool]

\* A config item: a literal value, or a generator config with its "type".
Lit(v) == [type |-> "lit", val |-> v, lower |-> 0, upper |-> 0, exclude |-> {},
           pool |-> {}, total_tests |-> 0]
NumConfig(lo, hi, excl, total) ==
    [type |-> "num", val |-> NoneVal, lower |-> lo, upper |-> hi, exclude |-> excl,
     pool |-> {}, total_tests |-> total]
BoolConfig(pool, total) ==
    [type |-> "bool_or_none", val |-> NoneVal, lower |-> 0, upper |-> 0,
     exclude |-> {}, pool |-> pool, total_tests |-> total]

\* _generate_from_config(config): the lists the generator can return for it.
GenerateFromConfig(item) ==
    CASE item.type = "num" ->
             GenerateNum(item.lower, item.upper, item.exclude, item.total_tests)
      [] item.type = "bool_or_none" ->
             GenerateBoolOrNone(item.pool, item.total_tests)
      [] OTHER -> {<<>>}

RECURSIVE GetValues(_)
\* _get_values(config) for a list config: literals are appended, the output of
\* each generator config is spliced in, in the order of the list.
GetValues(config) ==
    IF config = <<>> THEN {<<>>}
    ELSE LET item == Head(config)
             first == IF item.type = "lit" THEN {<<item.val>>}
                      ELSE GenerateFromConfig(item)
         IN  {h \o t : h \in first, t \in GetValues(Tail(config))}

(***************************************************************************)
(* The same generator with the random module made explicit.  Every         *)
(* TestCaseGenerator draws from the one process-wide random state;         *)
(* TestCaseGenerator(seed) seeds that state, TestCaseGenerator() leaves it *)
(* as it is.  The Mersenne Twister is abstracted to a small congruential   *)
(* generator: a draw is a function of the state and advances it.           *)
(***************************************************************************)
\* Number of states of the abstracted random module.
RngModulus == 8

RandNext(state) == (5 * state + 3) % RngModulus

\* random.randint(lower, upper) in the given state.
RandInt(state, lower, upper) == lower + (state % (upper - lower + 1))

RECURSIVE DrawNum(_, _, _, _, _, _, _)
\* The loop of generate_num from the given state: the list it returns and the
\* state it leaves.
DrawNum(state, lower, upper, exclude, total_tests, results, attempts) ==
    IF Len(results) >= total_tests \/ attempts >= total_tests * 100
    THEN [values |-> results, state |-> state]
    ELSE DrawNum(RandNext(state), lower, upper, exclude, total_tests,
                 IF /\ RandInt(state, lower, upper) \notin exclude
                    /\ \A i \in 1..Len(results) :
                          results[i] # Num(RandInt(state, lower, upper))
                 THEN Append(results, Num(RandInt(state, lower, upper)))
                 ELSE results,
                 attempts + 1)

\* The pool list of generate_bool_or_none: True, False, None, as enabled.
PoolList(pool) ==
    SelectSeq(<<Bool(TRUE), Bool(FALSE), NoneVal>>, LAMBDA v : v \in pool)

RECURSIVE DrawBoolOrNone(_, _, _, _)
\* random.choices(pool, k=total_tests) from the given state.
DrawBoolOrNone(state, pool, total_tests, results) ==
    IF pool = {} \/ Len(results) >= total_tests
    THEN [values |-> results, state |-> state]
    ELSE DrawBoolOrNone(RandNext(state), pool, total_tests,
                        Append(results,
                               PoolList(pool)[1 + (state % Len(PoolList(pool)))]))

\* _generate_from_config(config) from the given state.
DrawFromConfig(state, item) ==
    CASE item.type = "num" ->
             DrawNum(state, item.lower, item.upper, item.exclude, item.total_tests,
                     <<>>, 0)
      [] item.type = "bool_or_none" ->
             DrawBoolOrNone(state, item.pool, item.total_tests, <<>>)
      [] OTHER -> [values |-> <<>>, state |-> state]

RECURSIVE DrawValues(_, _, _)
\* _get_values(config) from the given state, values being the list so far.
DrawValues(state, config, values) ==
    IF config = <<>> THEN [values |-> values, state |-> state]
    ELSE IF Head(config).type = "lit"
    THEN DrawValues(state, Tail(config), Append(values, Head(config).val))
    ELSE DrawValues(DrawFromConfig(state, Head(config)).state, Tail(config),
                    values \o DrawFromConfig(state, Head(config)).values)

RECURSIVE DrawParams(_, _, _)
\* The candidate lists of a test's parameters, drawn in declaration order.
DrawParams(state, params, lists) ==
    IF params = <<>> THEN [choices |-> lists, state |-> state]
    ELSE DrawParams(DrawValues(state, Head(params).config, <<>>).state, Tail(params),
                    Append(lists, DrawValues(state, Head(params).config, <<>>).values))

RECURSIVE DrawTests(_, _, _)
\* The candidate lists of all the tests, drawn test after test.
DrawTests(state, tests, choices) ==
    IF tests = <<>> THEN [choices |-> choices, state |-> state]
    ELSE DrawTests(DrawParams(state, Head(tests).params, <<>>).state, Tail(tests),
                   Append(choices, DrawParams(state, Head(tests).params, <<>>).choices))

RECURSIVE ParamValueChoices(_)
\* The candidate lists of a test's parameters, one list per parameter in
\* declaration order: every combination the generator can produce.
ParamValueChoices(params) ==
    IF params = <<>> THEN {<<>>}
    ELSE {<<h>> \o t : h \in GetValues(Head(params).config),
                       t \in ParamValueChoices(Tail(params))}

(***************************************************************************)
(* The call planner: Grader.generate_test_calls.                           *)
(***************************************************************************)
SeqMax(lens) ==
    IF lens = <<>> THEN 0
    ELSE CHOOSE m \in {lens[i] : i \in 1..Len(lens)} :
             \A i \in 1..Len(lens) : lens[i] <= m

\* max_tests
MaxTests(param_values) ==
    IF param_values = <<>> THEN 1
    ELSE SeqMax([j \in 1..Len(param_values) |-> Len(param_values[j])])

\* i % len(param_values[name]) raises ZeroDivisionError on an empty list as
\* soon as one iteration runs.
PlanRaises(param_values) ==
    /\ MaxTests(param_values) > 0
    /\ \E j \in 1..Len(param_values) : param_values[j] = <<>>

\* The value the i-th iteration (from 0) draws for the j-th parameter.
PlannedValue(param_values, j, i) ==
    param_values[j][(i % Len(param_values[j])) + 1]

\* The text of the i-th call of a test.
PlannedCall(test, param_values, i) ==
    CallText(test.method,
             [j \in 1..Len(test.params) |-> Repr(PlannedValue(param_values, j, i))])

\* tracked_values of the i-th call: the tracked parameters, in declaration
\* order, each with the value the call passes.
TrackedValues(test, param_values, i) ==
    LET idx == SelectSeq([j \in 1..Len(test.params) |-> j],
                         LAMBDA j : test.params[j].name \in test.track_mutation)
    IN  [t \in 1..Len(idx) |->
            [name |-> test.params[idx[t]].name,
             value |-> PlannedValue(param_values, idx[t], i)]]

RECURSIVE PlanTests(_, _)
\* The loop over self.tests: whether it raised, and the calls and the
\* tracked-value maps appended up to there.  choices[t] holds the candidate
\* lists of test t.
PlanTests(tests, choices) ==
    IF tests = <<>> THEN [raised |-> FALSE, calls |-> <<>>, metadata |-> <<>>]
    ELSE LET test == Head(tests)
             pv == Head(choices)
         IN  IF PlanRaises(pv)
             THEN [raised |-> TRUE, calls |-> <<>>, metadata |-> <<>>]
             ELSE LET n == MaxTests(pv)
                      rest == PlanTests(Tail(tests), Tail(choices))
                  IN  [raised |-> rest.raised,
                       calls |-> [i \in 1..n |-> PlannedCall(test, pv, i - 1)]
                                 \o rest.calls,
                       metadata |-> [i \in 1..n |-> TrackedValues(test, pv, i - 1)]
                                    \o rest.metadata]

RECURSIVE ChoicesOfTests(_)
\* Every way the generator can fill the candidate lists of all the tests.
ChoicesOfTests(tests) ==
    IF tests = <<>> THEN {<<>>}
    ELSE {<<h>> \o t : h \in ParamValueChoices(Head(tests).params),
                       t \in ChoicesOfTests(Tail(tests))}

(***************************************************************************)
(* The harness synthesizer: Grader._write_test_execution.                  *)
(***************************************************************************)
RECURSIVE RewriteCall(_, _)
\* The loop over tracked_values.items(): each tracked value's repr is replaced,
\* at its first occurrence in the line, by the variable bound to it.
RewriteCall(line, tracked_values) ==
    IF tracked_values = <<>> THEN line
    ELSE RewriteCall(ReplaceFirst(line, Repr(Head(tracked_values).value),
                                  VarName(Head(tracked_values).name)),
                     Tail(tracked_values))

\* What is written for one line of the test-call file: the assignments that
\* bind the tracked values, the call as rewritten, and the names whose
\* variables make up heap_param_values (none for an untracked call).
HarnessBlock(line, tracked_values) ==
    [binds |-> [t \in 1..Len(tracked_values) |->
                   [var |-> VarName(tracked_values[t].name),
                    text |-> Repr(tracked_values[t].value)]],
     line |-> RewriteCall(line, tracked_values),
     heap |-> [t \in 1..Len(tracked_values) |-> tracked_values[t].name]]

\* The non-blank lines of the test-call file.
ReadLines(lines) == SelectSeq(lines, LAMBDA l : l # <<>>)

\* The per-call part of the synthesized program.  A line past the end of the
\* metadata gets no tracked values.
WriteTestExecution(lines, test_metadata) ==
    LET ls == ReadLines(lines)
    IN  [idx \in 1..Len(ls) |->
            HarnessBlock(ls[idx],
                         IF idx <= Len(test_metadata) THEN test_metadata[idx]
                         ELSE <<>>)]

\* repr(self.test_metadata) as written to the metadata file: the values as
\* their literal text.
WriteMetadata(test_metadata) ==
    [i \in 1..Len(test_metadata) |->
        [t \in 1..Len(test_metadata[i]) |->
            [name |-> test_metadata[i][t].name,
             text |-> Repr(test_metadata[i][t].value)]]]

\* _load_test_metadata: ast.literal_eval of the metadata file.
LoadTestMetadata(file) ==
    [i \in 1..Len(file) |->
        [t \in 1..Len(file[i]) |->
            [name |-> file[i][t].name, value |-> LiteralEval(file[i][t].text)]]]

(***************************************************************************)
(* A source text under test.  The sources of the model are the programs    *)
(*     [print('loading')]                                                  *)
(*     def f(x1, ..., xn):                                                 *)
(*         [sort the first or the last argument in place, if a list]       *)
(*         return None | x1 | True | 1 | float('nan')                      *)
(* and, for a submission, programs that raise or loop at import, or print  *)
(* a result list of their own and exit with status 0 before the harness    *)
(* runs.                                                                   *)
(***************************************************************************)
MethodF == <<"f">>

SortList(v) ==
    IF v.k = "list" THEN List(SortSeq(v.e, LAMBDA x, y : x < y)) ELSE v

\* The arguments as the call leaves them.
AfterCall(src, vals) ==
    [i \in 1..Len(vals) |->
        IF \/ src.mut = "sort_first" /\ i = 1
           \/ src.mut = "sort_last" /\ i = Len(vals)
        THEN SortList(vals[i]) ELSE vals[i]]

\* What the call returns.
ReturnOf(src, vals) ==
    CASE src.ret = "first"  -> IF vals = <<>> THEN NoneVal ELSE AfterCall(src, vals)[1]
      [] src.ret = "true"   -> Bool(TRUE)
      [] src.ret = "one"    -> Num(1)
      [] src.ret = "opaque" -> Opaque
      [] OTHER              -> NoneVal

\* var = v
Assign(env, var, v) ==
    [x \in DOMAIN env \cup {var} |-> IF x = var THEN v ELSE env[x]]

RECURSIVE Bind(_, _)
\* The assignments before a call: _p = <literal>.
Bind(env, binds) ==
    IF binds = <<>> THEN env
    ELSE Bind(Assign(env, Head(binds).var, EvalArg(Head(binds).text, env).val),
              Tail(binds))

\* The block assigns to the name.
Assigns(block, var) == \E t \in 1..Len(block.binds) : block.binds[t].var = var

\* The variables after a call: an object bound to a variable and passed as the
\* i-th argument shows what the call did to the i-th argument.
Rebind(env, args, post) ==
    [x \in DOMAIN env |->
        IF \E i \in 1..Len(args) : args[i].ref = x
        THEN post[CHOOSE i \in 1..Len(args) : args[i].ref = x]
        ELSE env[x]]

\* A line of captured output: text the source printed, or a printed list.
TextLine == [kind |-> "text", items |-> <<>>]
ListLine(items) == [kind |-> "list", items |-> items]

\* What print shows of a list inside itself.
CyclicRepr == <<"[", ".", ".", ".", "]">>

\* The record appended to _results after a call: the repr of the value
\* returned and of the variables bound to the tracked names.  The variable
\* _results is the list the record is appended to.
ResultRecord(src, heap, vals, env) ==
    [wf |-> TRUE,
     ret |-> Repr(ReturnOf(src, vals)),
     heap |-> [t \in 1..Len(heap) |->
                  [name |-> heap[t],
                   text |-> IF VarName(heap[t]) = ResultsName THEN CyclicRepr
                            ELSE Repr(env[VarName(heap[t])])]]]

\* An element of _results that is no record.
NoRecord == [wf |-> FALSE, ret |-> Repr(NoneVal), heap |-> <<>>]

\* _results when a block's call has returned: the records collected, or, when
\* the block has assigned a tracked value to _results, the elements of that
\* value.
Collected(block, env, recs) ==
    IF Assigns(block, ResultsName)
    THEN [i \in 1..Len(env[ResultsName].e) |-> NoRecord]
    ELSE recs

\* How a run of the blocks ends: ok is FALSE when a block raised (a
\* SyntaxError, a NameError); recs are the _results collected; trace keeps,
\* for each call, the arguments as the function left them.
Ran(ok, recs, trace) == [ok |-> ok, recs |-> recs, trace |-> trace]

RECURSIVE RunBlocks(_, _, _, _, _)

\* After the call: the record is appended and the next block runs.
\* _results.append raises AttributeError when the block has assigned a value
\* that is no list to _results.
RunRest(src, blocks, env, vals, recs, trace) ==
    IF Assigns(Head(blocks), ResultsName) /\ env[ResultsName].k # "list"
    THEN Ran(FALSE, recs, Append(trace, AfterCall(src, vals)))
    ELSE RunBlocks(src, Tail(blocks), env,
                   Append(Collected(Head(blocks), env, recs),
                          ResultRecord(src, Head(blocks).heap, vals, env)),
                   Append(trace, AfterCall(src, vals)))

\* The variables once the call has returned: the variables passed show what
\* it did to its arguments, and a tracked call's value is assigned to _ret.
AfterBody(src, block, env, args, vals) ==
    IF block.binds = <<>> THEN Rebind(env, args, AfterCall(src, vals))
    ELSE Assign(Rebind(env, args, AfterCall(src, vals)), RetName, ReturnOf(src, vals))

\* The call itself.
RunBody(src, blocks, env, args, vals, recs, trace) ==
    RunRest(src, blocks, AfterBody(src, Head(blocks), env, args, vals), vals, recs,
            trace)

\* The call of a block with its arguments evaluated.
RunCall(src, blocks, env, args, recs, trace) ==
    IF \E i \in 1..Len(args) : ~args[i].ok
    THEN Ran(FALSE, recs, trace)
    ELSE RunBody(src, blocks, env, args, [i \in 1..Len(args) |-> args[i].val],
                 recs, trace)

\* A block with its assignments done and its call expression read.
RunBlock(src, blocks, env, call, recs, trace) ==
    IF ~call.ok \/ call.method # MethodF
    THEN Ran(FALSE, recs, trace)
    ELSE RunCall(src, blocks, env,
                 [i \in 1..Len(call.args) |-> EvalArg(call.args[i], env)],
                 recs, trace)

\* The per-call blocks run in order.
RunBlocks(src, blocks, env, recs, trace) ==
    IF blocks = <<>> THEN Ran(TRUE, recs, trace)
    ELSE RunBlock(src, blocks, Bind(env, Head(blocks).binds),
                  ParseCall(Head(blocks).line), recs, trace)

EmptyEnv == [x \in {} |-> NoneVal]

\* What the source prints on its own when it is loaded.
Noise(src) == IF src.prints THEN <<TextLine>> ELSE <<>>

\* How the program ends once its blocks have run: print(_results) and status
\* 0, or a traceback.
Ended(src, run) ==
    IF run.ok
    THEN [status |-> "exit0", stdout |-> Noise(src) \o <<ListLine(run.recs)>>,
          trace |-> run.trace]
    ELSE [status |-> "failed", stdout |-> Noise(src), trace |-> run.trace]

\* The synthesized program run to its end: how it ended, what it printed and
\* the trace of its calls.
RunProgram(src, blocks) ==
    CASE src.top = "hang"  -> [status |-> "timeout", stdout |-> <<>>, trace |-> <<>>]
      [] src.top = "crash" -> [status |-> "failed", stdout |-> Noise(src),
                               trace |-> <<>>]
      [] src.top = "exit"  -> [status |-> "exited", stdout |-> Noise(src),
                               trace |-> <<>>]
      [] src.top = "forge" ->
             [status |-> "exit0", stdout |-> Noise(src) \o <<ListLine(src.forged)>>,
              trace |-> <<>>]
      [] OTHER -> Ended(src, RunBlocks(src, blocks, EmptyEnv, <<>>, <<>>))

(***************************************************************************)
(* The isolated executor as grade_submission sees it: the outcome          *)
(* run_script returns for a program.                                       *)
(***************************************************************************)
SandboxOutcome(run, launched) ==
    IF ~launched
    THEN [success |-> FALSE, stdout |-> <<>>, stderr |-> "nsjail: launch failed"]
    ELSE CASE run.status = "timeout" ->
                  [success |-> FALSE, stdout |-> <<>>, stderr |-> "Timeout after 5s"]
           [] run.status = "failed" ->
                  [success |-> FALSE, stdout |-> run.stdout, stderr |-> "Traceback"]
           [] run.status = "exited" ->
                  [success |-> FALSE, stdout |-> run.stdout, stderr |-> ""]
           [] OTHER ->
                  [success |-> TRUE, stdout |-> run.stdout, stderr |-> ""]

(***************************************************************************)
(* The result comparator: the second half of Grader.grade_submission.      *)
(***************************************************************************)
\* Whether ast.literal_eval accepts the captured output: one printed list and
\* nothing else, every value in it a literal.
Parses(stdout) ==
    /\ Len(stdout) = 1
    /\ stdout[1].kind = "list"
    /\ \A i \in 1..Len(stdout[1].items) :
          LET it == stdout[1].items[i]
          IN  /\ LiteralEval(it.ret) # ParseError
              /\ \A t \in 1..Len(it.heap) : LiteralEval(it.heap[t].text) # ParseError

\* ast.literal_eval(stdout.strip()) where it succeeds: the records, each heap
\* a mapping from its names to values.
ParseResults(stdout) ==
    [i \in 1..Len(stdout[1].items) |->
        LET it == stdout[1].items[i]
        IN  [wf |-> it.wf,
             return_value |-> LiteralEval(it.ret),
             heap_param_values |->
                 [nm \in {it.heap[t].name : t \in 1..Len(it.heap)} |->
                     LiteralEval(it.heap[CHOOSE t \in 1..Len(it.heap) :
                                             /\ it.heap[t].name = nm
                                             /\ \A u \in (t + 1)..Len(it.heap) :
                                                   it.heap[u].name # nm].text)]]]

\* Python's == on two values: True and False are the numbers 1 and 0, lists
\* are equal when their elements are, None equals only None.
PyEq(v, w) ==
    IF v.k \in {"num", "bool"} /\ w.k \in {"num", "bool"} THEN v.n = w.n
    ELSE v = w

\* Python's == on two heap_param_values mappings.
PyDictEq(g, h) ==
    /\ DOMAIN g = DOMAIN h
    /\ \A nm \in DOMAIN g : PyEq(g[nm], h[nm])

Min(a, b) == IF a <= b THEN a ELSE b

\* The comparison of one pair.
Diagnostic(i, student, expected) ==
    [test |-> i,
     passed |-> /\ PyEq(student.return_value, expected.return_value)
                /\ PyDictEq(student.heap_param_values, expected.heap_param_values),
     expected_return |-> expected.return_value,
     got_return |-> student.return_value,
     expected_heap |-> expected.heap_param_values,
     got_heap |-> student.heap_param_values]

\* Fault injection for C6: total as len(results), the number of compared pairs.
TotalOfComparedPairs(student_results, expected_results) ==
    Min(Len(student_results), Len(expected_results))

\* len(expected_results)
Total(student_results, expected_results) == Len(expected_results)

\* The loop over zip(student_results, expected_results).
Diagnostics(student_results, expected_results) ==
    [i \in 1..Min(Len(student_results), Len(expected_results)) |->
        Diagnostic(i, student_results[i], expected_results[i])]

\* A grade report; error is "None" when the submission was graded.
Report(error, passed, total, results) ==
    [error |-> error, passed |-> passed, total |-> total, results |-> results]

\* The report of a graded submission.
Graded(results, total) ==
    Report("None", Cardinality({i \in 1..Len(results) : results[i].passed}), total,
           results)

\* The comparison of the parsed records; a record without its fields raises
\* (KeyError) when the loop reaches it.
CompareResults(student_results, expected_results) ==
    IF \E i \in 1..Min(Len(student_results), Len(expected_results)) :
          ~student_results[i].wf \/ ~expected_results[i].wf
    THEN [raised |-> TRUE, report |-> Report("", 0, 0, <<>>)]
    ELSE [raised |-> FALSE,
          report |-> Graded(Diagnostics(student_results, expected_results),
                            Total(student_results, expected_results))]

\* Fault injection for C4: a failed run reported as every test of the answer
\* key failed.
CompareCountsFailedTests(outcome, answer_key) ==
    IF ~outcome.success
    THEN [raised |-> FALSE,
          report |-> Report(outcome.stderr, 0,
                            IF answer_key.exists /\ Parses(answer_key.content)
                            THEN Len(ParseResults(answer_key.content)) ELSE 0,
                            <<>>)]
    ELSE IF \/ ~Parses(outcome.stdout)
            \/ ~answer_key.exists
            \/ ~Parses(answer_key.content)
    THEN [raised |-> TRUE, report |-> Report("", 0, 0, <<>>)]
    ELSE CompareResults(ParseResults(outcome.stdout),
                        ParseResults(answer_key.content))

\* What grade_submission does with the executor's outcome: the report it
\* returns, or raised when an exception leaves it (the output or the answer
\* key does not parse, the answer key is missing, a record lacks a field).
Compare(outcome, answer_key) ==
    IF ~outcome.success
    THEN [raised |-> FALSE, report |-> Report(outcome.stderr, 0, 0, <<>>)]
    ELSE IF \/ ~Parses(outcome.stdout)
            \/ ~answer_key.exists
            \/ ~Parses(answer_key.content)
    THEN [raised |-> TRUE, report |-> Report("", 0, 0, <<>>)]
    ELSE CompareResults(ParseResults(outcome.stdout),
                        ParseResults(answer_key.content))

\* self.test_metadata as _write_test_execution uses it: what the Grader holds
\* in memory, or, when that is empty, the metadata file if there is one.
TestMetadata(in_memory, metadata_file) ==
    IF in_memory = <<>> /\ metadata_file.exists
    THEN LoadTestMetadata(metadata_file.content)
    ELSE in_memory

(***************************************************************************)
(* The inputs of the model.                                                *)
(***************************************************************************)
ParamA == <<"a">>
ParamB == <<"b">>

Param(name, config) == [name |-> name, config |-> config]
Test(method, params, track) ==
    [method |-> method, params |-> params, track_mutation |-> track]

Source(prints, ret, mut) ==
    [prints |-> prints, ret |-> ret, mut |-> mut, top |-> "run", forged |-> <<>>]
Stops(top) ==
    [prints |-> FALSE, ret |-> "none", mut |-> "none", top |-> top, forged |-> <<>>]
Forges(items) ==
    [prints |-> FALSE, ret |-> "none", mut |-> "none", top |-> "forge",
     forged |-> items]

\* A printed record, and a printed dict without the fields of a record.
Item(ret, heap) == [wf |-> TRUE, ret |-> Repr(ret), heap |-> heap]
BadItem == [wf |-> FALSE, ret |-> Repr(NoneVal), heap |-> <<>>]

\* A generator config that can come back empty: 0 is excluded.
NumFrom1 == NumConfig(0, MaxNum, {0}, MaxTotalTests)
\* {"type": "num", "lower": 1, "upper": 1, "exclude": [1]}: always [].
NumExhausted == NumConfig(1, 1, {1}, MaxTotalTests)

\* The test specs a lab is created with.
TestSpecs ==
    { \* add(1,0), add(2,0): the shorter list cycles
      Test(MethodF, <<Param(ParamA, <<Lit(Num(1)), Lit(Num(2))>>),
                      Param(ParamB, <<Lit(Num(0))>>)>>, {}),
      \* no parameters
      Test(MethodF, <<>>, {}),
      \* a tracked list after an untracked argument of the same text
      Test(MethodF, <<Param(ParamA, <<Lit(List(<<2, 1>>))>>),
                      Param(ParamB, <<Lit(List(<<2, 1>>))>>)>>, {ParamB}),
      \* a tracked list after a number; lists of lengths 1 and 2
      Test(MethodF, <<Param(ParamA, <<Lit(Num(1))>>),
                      Param(ParamB, <<Lit(List(<<2, 1>>)), Lit(List(<<1>>))>>)>>,
           {ParamB}),
      \* both parameters tracked
      Test(MethodF, <<Param(ParamA, <<Lit(List(<<2, 1>>))>>),
                      Param(ParamB, <<Lit(List(<<1, 0>>))>>)>>, {ParamA, ParamB}),
      \* generated numbers, which may run short, beside literals
      Test(MethodF, <<Param(ParamA, <<NumFrom1>>),
                      Param(ParamB, <<Lit(Num(1)), Lit(Num(2))>>)>>, {}),
      \* a generator whose every draw is excluded, beside literals
      Test(MethodF, <<Param(ParamA, <<NumExhausted>>),
                      Param(ParamB, <<Lit(Num(1)), Lit(Num(2))>>)>>, {}),
      \* generated numbers alone
      Test(MethodF, <<Param(ParamA, <<Lit(Num(0)), NumFrom1>>)>>, {}),
      \* booleans and None
      Test(MethodF, <<Param(ParamA, <<Lit(Bool(TRUE)), Lit(NoneVal)>>)>>, {}) }

\* test_config: the tests of one create_lab request.
LabConfigs ==
    {<<t>> : t \in TestSpecs}
    \cup {<<Test(MethodF, <<Param(ParamA, <<Lit(List(<<2, 1>>))>>)>>, {ParamA}),
            Test(MethodF, <<Param(ParamA, <<Lit(Num(1))>>)>>, {})>>}

\* solution_code: the trusted sources.
Solutions ==
    { Source(FALSE, "none", "sort_last"),
      Source(FALSE, "first", "sort_first"),
      Source(FALSE, "true", "none"),
      Source(TRUE, "first", "none"),
      Source(FALSE, "opaque", "none"),
      Stops("crash"),
      Stops("hang") }

\* student_code: the trusted sources, sources that differ from them in the
\* value returned or in the mutation, a source that exits with a status other
\* than 0 and prints nothing, and sources that print a result list of their
\* own and exit.
Submissions ==
    Solutions
    \cup { Source(FALSE, "none", "none"),
           Source(FALSE, "one", "none"),
           Stops("exit"),
           Forges(<<>>),
           Forges(<<Item(NoneVal, <<>>)>>),
           Forges(<<Item(Num(1), <<>>), Item(Num(1), <<>>), Item(Num(1), <<>>)>>),
           Forges(<<BadItem>>) }

(***************************************************************************)
(* The state: the files of one lab with one student, the requests in       *)
(* progress, and the response to the latest request.                       *)
(***************************************************************************)
VARIABLES
    solution_py,        \* <lab>/solution.py
    test_calls_txt,     \* <lab>/test_calls.txt
    metadata_txt,       \* <lab>/test_calls_metadata.txt
    answer_key_txt,     \* <lab>/answer_key.txt; built_from: the calls it was run on
    student_folder,     \* <lab>/Submissions/<student>: main.py and the archived ones
    teacher,            \* the create_lab request in progress and its Grader
    grading,            \* the grade_student request in progress and its Grader
    response,           \* the outcome of the latest request that ended
    lab,                \* the tests, the candidate lists and the trusted run of the lab
    rng,                \* the process-wide random module: its state, and the seed
                        \* it was given if no planning has drawn from it since
    plans,              \* the plannings made after a seeding, with the seed
    sandbox,            \* one invocation of run_script, step by step
    generator           \* one call of a TestCaseGenerator method and what it returned

vars == <<solution_py, test_calls_txt, metadata_txt, answer_key_txt, student_folder,
          teacher, grading, response, lab, rng, plans, sandbox, generator>>

\* The variables of the lab engine.
engine == <<solution_py, test_calls_txt, metadata_txt, answer_key_txt, student_folder,
            teacher, grading, response, lab, rng, plans>>

files == <<solution_py, test_calls_txt, metadata_txt, answer_key_txt, student_folder>>

NoSource == Source(FALSE, "none", "none")
NoRun == [status |-> "none", stdout |-> <<>>, trace |-> <<>>]
NoOutcome == [success |-> FALSE, stdout |-> <<>>, stderr |-> ""]
NoReport == Report("", 0, 0, <<>>)

Absent == [exists |-> FALSE, src |-> NoSource]
NoLines == [exists |-> FALSE, lines |-> <<>>]
NoMetadata == [exists |-> FALSE, content |-> <<>>]
NoAnswerKey == [exists |-> FALSE, content |-> <<>>, built_from |-> <<>>]
NoFolder == [main_exists |-> FALSE, main_py |-> NoSource, archived |-> 0]

IdleTeacher == [pc |-> "idle", tests |-> <<>>, test_metadata |-> <<>>]
IdleGrading == [pc |-> "idle", src |-> NoSource, blocks |-> <<>>, calls_read |-> <<>>]

\* What a grading request did: whether run_script returned to it, the planned
\* calls it read when it wrote the harness, and the calls the answer key it
\* read was built from.
NoReads == [ran |-> FALSE, calls |-> <<>>, key_from |-> <<>>, key_read |-> FALSE]

\* The outcome of a request: raised when an exception left the operation,
\* else what it returned; "pending" while the request runs.
Response(op, status, report, outcome, reads) ==
    [op |-> op, status |-> status, report |-> report, outcome |-> outcome,
     reads |-> reads]
Returned(op) == Response(op, "returned", NoReport, NoOutcome, NoReads)
Raised(op) == Response(op, "raised", NoReport, NoOutcome, NoReads)
Pending(op) == Response(op, "pending", NoReport, NoOutcome, NoReads)

\* Largest number of archived submission#.py files the model follows.
MaxArchived == 1

\* What run_script returns: the dict of lines 69-74, 77-82 or 85-90; stderr
\* is a sequence of the pieces of its text.
Outcome(returncode, stdout, stderr) ==
    [returncode |-> returncode, stdout |-> stdout, stderr |-> stderr,
     success |-> returncode = 0]

\* run_script not invoked, and no generator method called.
NoInvocation ==
    [pc |-> "idle", program |-> "ok", timeout |-> 0, allow_network |-> FALSE,
     scratch |-> FALSE, cmd |-> [time_limit |-> 0, rlimit_cpu |-> 0, flags |-> {}], clock |-> 0, started |-> FALSE, jailed_at |-> 0,
     stopped_by |-> "none", path |-> "none", pending |-> Outcome(0, "", <<>>),
     result |-> "none", own_netns |-> FALSE, removal_issued |-> FALSE,
     failures |-> {}]
NoGeneration == [method |-> "none"]

\* The random module in the given state, not seeded by any generator.
Unseeded(state) == [state |-> state, seeded |-> {}]

Init ==
    /\ solution_py = Absent
    /\ test_calls_txt = NoLines
    /\ metadata_txt = NoMetadata
    /\ answer_key_txt = NoAnswerKey
    /\ student_folder = NoFolder
    /\ teacher = IdleTeacher
    /\ grading = IdleGrading
    /\ response = Returned("none")
    /\ lab = [tests |-> <<>>, choices |-> <<>>, run |-> NoRun]
    /\ rng = Unseeded(0)
    /\ plans = {}
    /\ sandbox = NoInvocation
    /\ generator = NoGeneration

(***************************************************************************)
(* LabBackend.create_lab, step by step.                                    *)
(***************************************************************************)
\* backend.py 20-33: the old lab, submissions included, is removed; the
\* folders and solution.py are written; a Grader is built and given the tests.
CreateLabBegin(test_config, solution_code) ==
    /\ teacher.pc = "idle"
    /\ solution_py' = [exists |-> TRUE, src |-> solution_code]
    /\ test_calls_txt' = NoLines
    /\ metadata_txt' = NoMetadata
    /\ answer_key_txt' = NoAnswerKey
    /\ student_folder' = NoFolder
    /\ teacher' = [pc |-> "generate_test_calls", tests |-> test_config,
                   test_metadata |-> <<>>]
    /\ response' = Pending("create_lab")
    /\ lab' = [tests |-> test_config, choices |-> <<>>, run |-> NoRun]
    /\ UNCHANGED <<grading, rng, plans, sandbox, generator>>

\* Grader.generate_test_calls once the generator has returned the candidate
\* lists: the calls are planned and, unless the planning raised, written with
\* their metadata.
WritePlan(choices, plan) ==
    /\ lab' = [lab EXCEPT !.choices = choices]
    /\ IF plan.raised
       THEN /\ teacher' = IdleTeacher
            /\ response' = Raised("create_lab")
            /\ UNCHANGED <<test_calls_txt, metadata_txt>>
       ELSE /\ test_calls_txt' = [exists |-> TRUE, lines |-> plan.calls]
            /\ metadata_txt' = [exists |-> TRUE,
                                content |-> WriteMetadata(teacher.test_metadata
                                                          \o plan.metadata)]
            /\ teacher' = [teacher EXCEPT !.pc = "generate_answer_key",
                                          !.test_metadata = @ \o plan.metadata]
            /\ UNCHANGED response
    /\ UNCHANGED <<solution_py, answer_key_txt, student_folder, grading, sandbox,
                   generator>>

\* Grader.generate_test_calls, the random module being in any state.
GenerateTestCalls ==
    /\ teacher.pc = "generate_test_calls"
    /\ \E choices \in ChoicesOfTests(teacher.tests) :
           WritePlan(choices, PlanTests(teacher.tests, choices))
    /\ UNCHANGED <<rng, plans, sandbox, generator>>

\* Grader.generate_answer_key: the harness is run on the solution, directly;
\* its output is written as the answer key when it exits with status 0, and
\* an exception leaves create_lab otherwise (RuntimeError, TimeoutExpired).
GenerateAnswerKey ==
    /\ teacher.pc = "generate_answer_key"
    /\ \E run \in {RunProgram(solution_py.src,
                              WriteTestExecution(test_calls_txt.lines,
                                                 TestMetadata(teacher.test_metadata,
                                                              metadata_txt)))} :
           /\ lab' = [lab EXCEPT !.run = run]
           /\ IF run.status = "exit0"
              THEN /\ answer_key_txt' = [exists |-> TRUE, content |-> run.stdout,
                                         built_from |-> test_calls_txt.lines]
                   /\ response' = Returned("create_lab")
              ELSE /\ response' = Raised("create_lab")
                   /\ UNCHANGED answer_key_txt
    /\ teacher' = IdleTeacher
    /\ UNCHANGED <<solution_py, test_calls_txt, metadata_txt, student_folder, grading,
                   rng, plans, sandbox, generator>>

(***************************************************************************)
(* LabBackend.submit_student_code.                                         *)
(***************************************************************************)
\* Fault injection for C10: a submission that recreates the lab folder, as
\* create_lab does, before it writes main.py.
SubmitRecreatesLab(student_code) ==
    /\ student_folder.main_exists => student_folder.archived < MaxArchived
    /\ student_folder' = [main_exists |-> TRUE, main_py |-> student_code, archived |-> 0]
    /\ test_calls_txt' = NoLines
    /\ metadata_txt' = NoMetadata
    /\ answer_key_txt' = NoAnswerKey
    /\ response' = Returned("submit")
    /\ UNCHANGED <<solution_py, teacher, grading, lab, rng, plans, sandbox, generator>>

\* An existing main.py is moved to the next free submission#.py, then main.py
\* is written.
SubmitStudentCode(student_code) ==
    /\ student_folder.main_exists => student_folder.archived < MaxArchived
    /\ student_folder' =
           [main_exists |-> TRUE, main_py |-> student_code,
            archived |-> IF student_folder.main_exists
                         THEN student_folder.archived + 1
                         ELSE student_folder.archived]
    /\ response' = Returned("submit")
    /\ UNCHANGED <<solution_py, test_calls_txt, metadata_txt, answer_key_txt,
                   teacher, grading, lab, rng, plans, sandbox, generator>>

(***************************************************************************)
(* LabBackend.grade_student, step by step.                                 *)
(***************************************************************************)
\* grader.py 197-210: a new Grader reads main.py, the metadata and the test
\* calls and writes the harness; a missing main.py or test-call file raises.
GradeBegin ==
    /\ grading.pc = "idle"
    /\ IF student_folder.main_exists /\ test_calls_txt.exists
       THEN /\ grading' =
                   [pc |-> "run_script",
                    src |-> student_folder.main_py,
                    blocks |-> WriteTestExecution(test_calls_txt.lines,
                                                  TestMetadata(<<>>, metadata_txt)),
                    calls_read |-> test_calls_txt.lines]
            /\ response' = Pending("grade")
       ELSE /\ response' = Raised("grade")
            /\ UNCHANGED grading
    /\ UNCHANGED <<solution_py, test_calls_txt, metadata_txt, answer_key_txt,
                   student_folder, teacher, lab, rng, plans, sandbox, generator>>

\* grader.py 213-249: the harness is run in the sandbox and its output is
\* compared with the answer key as it is read then.
GradeFinish(launched) ==
    /\ grading.pc = "run_script"
    /\ \E outcome \in {SandboxOutcome(RunProgram(grading.src, grading.blocks),
                                      launched)} :
       \E graded \in {Compare(outcome, answer_key_txt)} :
       \E key_read \in {outcome.success /\ Parses(outcome.stdout)
                                        /\ answer_key_txt.exists} :
           response' =
               Response("grade",
                        IF graded.raised THEN "raised" ELSE "returned",
                        graded.report, outcome,
                        [ran |-> TRUE,
                         calls |-> grading.calls_read,
                         key_from |-> IF key_read THEN answer_key_txt.built_from
                                      ELSE <<>>,
                         key_read |-> key_read])
    /\ grading' = IdleGrading
    /\ UNCHANGED <<solution_py, test_calls_txt, metadata_txt, answer_key_txt,
                   student_folder, teacher, lab, rng, plans, sandbox, generator>>

(***************************************************************************)
(* The server: http.server.HTTPServer handles one request at a time, so a  *)
(* request begins only when none is in progress.                           *)
(***************************************************************************)
NoRequest == teacher.pc = "idle" /\ grading.pc = "idle"

CreateLab ==
    \E test_config \in LabConfigs, solution_code \in Solutions :
        NoRequest /\ CreateLabBegin(test_config, solution_code)

Submit ==
    \E student_code \in Submissions : NoRequest /\ SubmitStudentCode(student_code)

GradeStudent == NoRequest /\ GradeBegin

RunAndCompare == \E launched \in BOOLEAN : GradeFinish(launched)

Next ==
    \/ CreateLab
    \/ GenerateTestCalls
    \/ GenerateAnswerKey
    \/ Submit
    \/ GradeStudent
    \/ RunAndCompare

Spec == Init /\ [][Next]_vars

(***************************************************************************)
(* The creation of labs with the random module made explicit: generators   *)
(* are constructed with a seed, other generator instances draw, and the    *)
(* Grader, which constructs its generator without a seed, plans.           *)
(***************************************************************************)
\* Largest seed given to a generator, and most seeded plannings recorded.
MaxSeed == 1
MaxPlans == 2

Seeds == 0..MaxSeed

\* The labs created here: their candidate lists come from the generator.
SeededConfigs ==
    { <<Test(MethodF, <<Param(ParamA, <<Lit(Num(0)), NumFrom1>>)>>, {})>>,
      <<Test(MethodF, <<Param(ParamA, <<NumFrom1>>),
                        Param(ParamB, <<BoolConfig({Bool(TRUE), NoneVal},
                                                   MaxTotalTests)>>)>>, {})>> }

InitSeeded ==
    /\ solution_py = Absent
    /\ test_calls_txt = NoLines
    /\ metadata_txt = NoMetadata
    /\ answer_key_txt = NoAnswerKey
    /\ student_folder = NoFolder
    /\ teacher = IdleTeacher
    /\ grading = IdleGrading
    /\ response = Returned("none")
    /\ lab = [tests |-> <<>>, choices |-> <<>>, run |-> NoRun]
    /\ rng \in {Unseeded(state) : state \in 0..(RngModulus - 1)}
    /\ plans = {}
    /\ sandbox = NoInvocation
    /\ generator = NoGeneration

\* TestCaseGenerator(seed): random.seed(seed) on the process-wide module.
SeedGenerator ==
    /\ \E seed \in Seeds : rng' = [state |-> seed % RngModulus, seeded |-> {seed}]
    /\ UNCHANGED <<files, teacher, grading, response, lab, plans, sandbox, generator>>

\* Another generator instance, constructed without a seed, draws a value.
OtherDraw ==
    /\ rng' = [rng EXCEPT !.state = RandNext(@)]
    /\ UNCHANGED <<files, teacher, grading, response, lab, plans, sandbox, generator>>

CreateLabSeeded ==
    \E test_config \in SeededConfigs :
        NoRequest /\ CreateLabBegin(test_config, Source(FALSE, "first", "none"))

\* Grader.generate_test_calls with the random module in its state: the
\* planning is recorded with the seed when the module was seeded and no
\* planning has drawn from it since.
GenerateTestCallsSeeded ==
    /\ teacher.pc = "generate_test_calls"
    /\ rng.seeded # {} => Cardinality(plans) < MaxPlans
    /\ \E drawn \in {DrawTests(rng.state, teacher.tests, <<>>)} :
       \E plan \in {PlanTests(teacher.tests, drawn.choices)} :
           /\ WritePlan(drawn.choices, plan)
           /\ rng' = Unseeded(drawn.state)
           /\ plans' = plans \cup {[seed |-> seed, tests |-> teacher.tests,
                                     raised |-> plan.raised, calls |-> plan.calls,
                                     metadata |-> plan.metadata] : seed \in rng.seeded}

NextSeeded ==
    \/ SeedGenerator
    \/ OtherDraw
    \/ CreateLabSeeded
    \/ GenerateTestCallsSeeded
    \/ GenerateAnswerKey

SpecSeeded == InitSeeded /\ [][NextSeeded]_vars

(***************************************************************************)
(* run_script, step by step.  The commands it runs (wsl cp, wsl sudo       *)
(* nsjail, wsl rm) are the environment: each can be missing (the call      *)
(* raises), fail (a status other than 0) or work.  A clock counts the      *)
(* seconds since subprocess.run was called for the isolation command; the  *)
(* tool starts its own clock when it has started.                          *)
(***************************************************************************)
\* Largest timeout argument, and the seconds subprocess.run waits beyond it.
MaxTimeout == 2
WatchdogSlack == 2

\* What the program under test does: ends with status 0, raises, dies from a
\* signal of its own (os.kill, the memory limit), or loops.
Programs == {"ok", "crash", "killed", "hang"}

\* How a command of the environment behaves.
CommandBehaviours == {"works", "fails", "raises"}

\* Lines 37-58: the options of the isolation command that the arguments
\* choose.
IsolationCommand(timeout, allow_network) ==
    [time_limit |-> timeout, rlimit_cpu |-> timeout,
     flags |-> {"-Mo", "--disable_clone_newuser"}
               \cup (IF ~allow_network THEN {"--disable_clone_newnet"} ELSE {})]

\* nsjail puts the program in a network namespace of its own unless it is
\* told not to clone one.
OwnNetworkNamespace(cmd) == "--disable_clone_newnet" \notin cmd.flags

\* The raw stderr of the isolation tool for a program that died from a
\* signal, whoever sent it: run_script passes it on as it is.
SignalDiagnostic == <<"terminated with signal: SIGKILL">>

\* The raw stderr of the isolation tool when its wall-clock limit (-t) ends
\* the program.
TimeLimitDiagnostic == <<"run time >= time limit">>

\* f"Timeout after {timeout}s"
TimeoutDiagnostic(timeout) == <<"Timeout after", timeout, "s">>

\* run_script is called: lines 27-33 compute the paths.
RunScriptCall ==
    /\ sandbox.pc \in {"idle", "done"}
    /\ \E program \in Programs, timeout \in 1..MaxTimeout, allow_network \in BOOLEAN :
           sandbox' = [NoInvocation EXCEPT !.pc = "copy", !.program = program,
                                          !.timeout = timeout,
                                          !.allow_network = allow_network]
    /\ UNCHANGED <<engine, generator>>

\* Line 34: subprocess.run(copy_cmd, capture_output=True), outside the try;
\* its status is not looked at.
CopyIn ==
    /\ sandbox.pc = "copy"
    /\ \E copy \in CommandBehaviours :
           sandbox' =
               CASE copy = "works" -> [sandbox EXCEPT !.pc = "launch", !.scratch = TRUE]
                 [] copy = "fails" -> [sandbox EXCEPT !.pc = "launch",
                                                      !.failures = {"copy"}]
                 [] OTHER -> [sandbox EXCEPT !.pc = "done", !.result = "raised",
                                             !.path = "copy raised",
                                             !.failures = {"copy"}]
    /\ UNCHANGED <<engine, generator>>

\* Lines 37-67: the command is built and subprocess.run is called with
\* timeout + 2.  The call raises when the command is missing (except
\* Exception, lines 84-90); the tool exits at once when it cannot mount the
\* scratch copy.
Launch ==
    /\ sandbox.pc = "launch"
    /\ \E launch \in CommandBehaviours :
       \E cmd \in {IsolationCommand(sandbox.timeout, sandbox.allow_network)} :
           sandbox' =
               CASE launch = "raises" ->
                        [sandbox EXCEPT !.pc = "finally", !.cmd = cmd,
                                        !.path = "launch raised",
                                        !.failures = @ \cup {"launch"},
                                        !.pending = Outcome(-1, "", <<"No such file: wsl">>)]
                 [] launch = "fails" \/ ~sandbox.scratch ->
                        [sandbox EXCEPT !.pc = "finally", !.cmd = cmd,
                                        !.path = "launch failed",
                                        !.failures = @ \cup {"launch"},
                                        !.pending = Outcome(255, "", <<"nsjail: cannot start">>)]
                 [] OTHER ->
                        [sandbox EXCEPT !.pc = "running", !.cmd = cmd, !.clock = 0]
    /\ UNCHANGED <<engine, generator>>

\* The tool's limit is due: the program has run for timeout seconds.
ToolLimitDue ==
    sandbox.started /\ sandbox.clock - sandbox.jailed_at >= sandbox.timeout

\* The limit of subprocess.run is due.
WatchdogDue == sandbox.clock >= sandbox.timeout + WatchdogSlack

\* A second passes while subprocess.run waits.
Tick ==
    /\ sandbox.pc = "running"
    /\ ~ToolLimitDue /\ ~WatchdogDue
    /\ sandbox' = [sandbox EXCEPT !.clock = @ + 1]
    /\ UNCHANGED <<engine, generator>>

\* wsl, sudo and nsjail have started: the program runs, in a network
\* namespace of its own or not as the command says, and the tool's clock
\* starts.
ToolStarts ==
    /\ sandbox.pc = "running" /\ ~sandbox.started
    /\ ~WatchdogDue
    /\ sandbox' = [sandbox EXCEPT !.started = TRUE, !.jailed_at = sandbox.clock,
                                  !.own_netns = OwnNetworkNamespace(sandbox.cmd)]
    /\ UNCHANGED <<engine, generator>>

\* The program ends by itself before any limit: lines 69-74.
ProgramEnds ==
    /\ sandbox.pc = "running" /\ sandbox.started
    /\ sandbox.program # "hang"
    /\ ~ToolLimitDue /\ ~WatchdogDue
    /\ sandbox' =
           [sandbox EXCEPT
               !.pc = "finally", !.path = "program ended",
               !.pending =
                   CASE sandbox.program = "ok" -> Outcome(0, "[...]", <<>>)
                     [] sandbox.program = "crash" -> Outcome(1, "", <<"Traceback">>)
                     [] OTHER -> Outcome(137, "", SignalDiagnostic)]
    /\ UNCHANGED <<engine, generator>>

\* The tool's own limit stops the program: the wall-clock limit
\* (-t timeout), or the CPU limit (--rlimit_cpu timeout) by which the kernel
\* kills a program that computes.  Either way the tool exits with the status
\* of a killed program and subprocess.run returns, lines 69-74.
ToolStopsProgram ==
    /\ sandbox.pc = "running"
    /\ ToolLimitDue
    /\ \E limit \in {"-t", "--rlimit_cpu"} :
           sandbox' = [sandbox EXCEPT
                          !.pc = "finally", !.path = "tool limit",
                          !.stopped_by = limit,
                          !.pending = Outcome(137, "",
                                              IF limit = "-t" THEN TimeLimitDiagnostic
                                                              ELSE SignalDiagnostic)]
    /\ UNCHANGED <<engine, generator>>

\* subprocess.run raises TimeoutExpired: lines 76-82.
WatchdogExpires ==
    /\ sandbox.pc = "running"
    /\ WatchdogDue
    /\ sandbox' = [sandbox EXCEPT !.pc = "finally", !.path = "watchdog",
                                  !.stopped_by = "watchdog",
                                  !.pending = Outcome(-1, "",
                                                      TimeoutDiagnostic(sandbox.timeout))]
    /\ UNCHANGED <<engine, generator>>

\* The removal written after the try statement's normal return instead of in
\* a finally clause: an except branch returns without it.
TearDownAfterNormalReturn ==
    /\ sandbox.pc = "finally"
    /\ sandbox' =
           IF sandbox.path \in {"watchdog", "launch raised"}
           THEN [sandbox EXCEPT !.pc = "done", !.result = "returned"]
           ELSE [sandbox EXCEPT !.pc = "done", !.result = "returned",
                                !.removal_issued = TRUE, !.scratch = FALSE]
    /\ UNCHANGED <<engine, generator>>

\* Lines 92-94: the finally clause runs wsl rm -f on the scratch copy, whose
\* status is not looked at; then the pending dict is returned, unless the
\* call itself raised.
TearDown ==
    /\ sandbox.pc = "finally"
    /\ \E removal \in CommandBehaviours :
           sandbox' =
               CASE removal = "works" ->
                        [sandbox EXCEPT !.pc = "done", !.result = "returned",
                                        !.removal_issued = TRUE, !.scratch = FALSE]
                 [] removal = "fails" ->
                        [sandbox EXCEPT !.pc = "done", !.result = "returned",
                                        !.removal_issued = TRUE,
                                        !.failures = @ \cup {"removal"}]
                 [] OTHER ->
                        [sandbox EXCEPT !.pc = "done", !.result = "raised",
                                        !.path = "removal raised",
                                        !.failures = @ \cup {"removal"}]
    /\ UNCHANGED <<engine, generator>>

NextSandbox ==
    \/ RunScriptCall
    \/ CopyIn
    \/ Launch
    \/ Tick
    \/ ToolStarts
    \/ ProgramEnds
    \/ ToolStopsProgram
    \/ WatchdogExpires
    \/ TearDown

SpecSandbox == Init /\ [][NextSandbox]_vars

(***************************************************************************)
(* TestCaseGenerator, method by method.  A number is a count of tenths     *)
(* (10 is 1, 12 is 1.2, and the float 2.0 is the integer 2), a draw of     *)
(* random.uniform is a count of hundredths, and a text is the sequence of  *)
(* the codes of its characters.                                            *)
(***************************************************************************)
\* max_attempts = total_tests * 100
AttemptsPerTest == 100
\* The tenths in 1, and the hundredths in a tenth.
One == 10
Grain == 10
\* decimal=None
NoDecimal == -1

\* random.randint(int(lower), int(upper)): int() drops the fraction of a
\* bound that is not negative.
RandintValues(lower, upper) == {i * One : i \in (lower \div One)..(upper \div One)}

\* round(x, decimal) for decimal 0 or 1 and a draw x in hundredths.  A draw
\* half way between two results stands for the reals next to it, which round
\* either way.
Round(x, decimal) ==
    LET step == IF decimal = 0 THEN One * Grain ELSE Grain
        down == ((x \div step) * step) \div Grain
        up == (((x \div step) + 1) * step) \div Grain
        rest == x % step
    IN  IF 2 * rest < step THEN {down}
        ELSE IF 2 * rest > step THEN {up}
        ELSE {down, up}

\* round(random.uniform(lower, upper), decimal)
UniformValues(lower, upper, decimal) ==
    UNION {Round(x, decimal) : x \in (lower * Grain)..(upper * Grain)}

\* Lines 34-37: the values one attempt of generate_num can draw.
NumDraws(config) ==
    IF config.decimal = NoDecimal
    THEN RandintValues(config.lower, config.upper)
    ELSE UniformValues(config.lower, config.upper, config.decimal)

\* str.upper() and str.lower() on one ASCII character.
Upper(code) == IF code \in 97..122 THEN code - 32 ELSE code
Lower(code) == IF code \in 65..90 THEN code + 32 ELSE code

\* Lines 69-74: what the case transformation can make of a drawn text.
CaseTransforms(value, case) ==
    CASE case = "upper" -> {[i \in 1..Len(value) |-> Upper(value[i])]}
      [] case = "lower" -> {[i \in 1..Len(value) |-> Lower(value[i])]}
      [] case = "random" ->
             {[i \in 1..Len(value) |-> IF up[i] THEN Upper(value[i]) ELSE Lower(value[i])] :
                  up \in [1..Len(value) -> BOOLEAN]}
      [] OTHER -> {value}

\* excl in value, for two texts.
Contains(excl, value) ==
    \E i \in 0..(Len(value) - Len(excl)) : SubSeq(value, i + 1, i + Len(excl)) = excl

\* Line 77: value in exclude or any(excl in value for excl in exclude)
Excluded(value, exclude) ==
    value \in exclude \/ \E excl \in exclude : Contains(excl, value)

\* Lines 64-74: the texts one attempt of generate_string can come to.
StringDraws(config) ==
    UNION {CaseTransforms(drawn, config.case) :
               drawn \in UNION {[1..length -> config.char_range[1]..config.char_range[2]] :
                                    length \in config.lower_len..config.upper_len}}

\* value in results
InList(value, results) == \E i \in 1..Len(results) : results[i] = value

\* The arguments of generate_num and of generate_string.
NumRequest(lower, upper, decimal, exclude) ==
    [lower |-> lower, upper |-> upper, decimal |-> decimal, exclude |-> exclude]
StringRequest(lower_len, upper_len, char_range, exclude, case) ==
    [lower_len |-> lower_len, upper_len |-> upper_len, char_range |-> char_range,
     exclude |-> exclude, case |-> case]

\* The calls of generate_num the model makes: integer and decimal generation,
\* bounds that are integers and bounds that are not, exclusions that leave
\* fewer values than requested, or none.
NumRequests ==
    {NumRequest(10, 20, NoDecimal, {}),
     NumRequest(10, 20, NoDecimal, {10}),
     NumRequest(10, 10, NoDecimal, {10}),
     NumRequest(12, 30, NoDecimal, {}),
     NumRequest(10, 13, 1, {}),
     NumRequest(10, 13, 1, {11, 12}),
     NumRequest(10, 10, 1, {10}),
     NumRequest(10, 20, 0, {10}),
     NumRequest(12, 16, 0, {})}

\* The calls of generate_string the model makes: "a" is 97, "A" 65, "0" 48.
StringRequests ==
    {StringRequest(0, 2, <<97, 98>>, {}, "none"),
     StringRequest(1, 2, <<97, 98>>, {<<97>>}, "none"),
     StringRequest(1, 2, <<97, 98>>, {<<97, 98>>}, "none"),
     StringRequest(0, 1, <<97, 97>>, {<<>>}, "none"),
     StringRequest(1, 2, <<97, 98>>, {}, "upper"),
     StringRequest(1, 1, <<97, 98>>, {<<65>>}, "upper"),
     StringRequest(1, 1, <<65, 66>>, {}, "lower"),
     StringRequest(1, 2, <<48, 49>>, {}, "upper"),
     StringRequest(0, 2, <<97, 97>>, {}, "random")}

\* A call of a generator method in progress: the loop of generate_num or of
\* generate_string with its results and attempts.
InLoop(method, config, total_tests) ==
    [method |-> method, pc |-> "loop", config |-> config, total_tests |-> total_tests,
     results |-> <<>>, attempts |-> 0]

\* Lines 26-29 of generate_num.
GenerateNumCall ==
    /\ generator = NoGeneration
    /\ \E config \in NumRequests, total_tests \in 1..MaxTotalTests :
           generator' = InLoop("generate_num", config, total_tests)
    /\ UNCHANGED <<engine, sandbox>>

\* Lines 56-59 of generate_string.
GenerateStringCall ==
    /\ generator = NoGeneration
    /\ \E config \in StringRequests, total_tests \in 1..MaxTotalTests :
           generator' = InLoop("generate_string", config, total_tests)
    /\ UNCHANGED <<engine, sandbox>>

\* while len(results) < total_tests and attempts < max_attempts
LoopGoesOn ==
    /\ generator.method \in {"generate_num", "generate_string"}
    /\ generator.pc = "loop"
    /\ Len(generator.results) < generator.total_tests
    /\ generator.attempts < generator.total_tests * AttemptsPerTest

\* Lines 31-40: one attempt of generate_num.
GenerateNumAttempt ==
    /\ LoopGoesOn /\ generator.method = "generate_num"
    /\ \E value \in NumDraws(generator.config) :
           generator' =
               [generator EXCEPT
                   !.attempts = @ + 1,
                   !.results = IF value \notin generator.config.exclude
                                  /\ ~InList(value, generator.results)
                               THEN Append(@, value) ELSE @]
    /\ UNCHANGED <<engine, sandbox>>

\* Lines 61-81: one attempt of generate_string.
GenerateStringAttempt ==
    /\ LoopGoesOn /\ generator.method = "generate_string"
    /\ \E value \in StringDraws(generator.config) :
           generator' =
               [generator EXCEPT
                   !.attempts = @ + 1,
                   !.results = IF ~Excluded(value, generator.config.exclude)
                                  /\ ~InList(value, generator.results)
                               THEN Append(@, value) ELSE @]
    /\ UNCHANGED <<engine, sandbox>>

\* Lines 42 and 83: the loop has ended, return results.
GenerateReturn ==
    /\ generator.method \in {"generate_num", "generate_string"}
    /\ generator.pc = "loop" /\ ~LoopGoesOn
    /\ generator' = [generator EXCEPT !.pc = "returned"]
    /\ UNCHANGED <<engine, sandbox>>

(***************************************************************************)
(* generate_array and generate_dict.  Each element, key and value is one   *)
(* call of a generator method with total_tests=1, of which the first       *)
(* result is taken.                                                        *)
(***************************************************************************)
\* A text and a dict as values: the characters of a text are its elements,
\* the items of a dict are [key, value] lists in the order of insertion.
Text(codes) == [k |-> "str", n |-> 0, e |-> [i \in 1..Len(codes) |-> Num(codes[i])]]
Dict(items) == [k |-> "dict", n |-> 0, e |-> items]

\* An element, key or value config: its "type", the arguments of that type,
\* and whether it carries a "total_tests" of its own.
ElementConfig(type, num, text, pool, elements, keys, values) ==
    [type |-> type, num |-> num, text |-> text, pool |-> pool, elements |-> elements,
     keys |-> keys, values |-> values, total_tests |-> FALSE]
NoNum == NumRequest(0, 0, NoDecimal, {})
NoText == StringRequest(0, 0, <<0, 0>>, {}, "none")
NumElement(num) == ElementConfig("num", num, NoText, {}, <<>>, <<>>, <<>>)
StringElement(text) == ElementConfig("string", NoNum, text, {}, <<>>, <<>>, <<>>)
BoolElement(pool) == ElementConfig("bool_or_none", NoNum, NoText, pool, <<>>, <<>>, <<>>)
ArrayElement(elements) == ElementConfig("array", NoNum, NoText, {}, elements, <<>>, <<>>)
DictElement(keys, values) == ElementConfig("dict", NoNum, NoText, {}, <<>>, keys, values)
OtherElement == ElementConfig("set", NoNum, NoText, {}, <<>>, <<>>, <<>>)
WithTotalTests(config) == [config EXCEPT !.total_tests = TRUE]

\* What a call gives: a value, or an exception (IndexError for [0] of an empty
\* list, TypeError for total_tests passed twice).
Gives(value) == [raised |-> FALSE, value |-> value]
Raises == [raised |-> TRUE, value |-> NoneVal]

\* generate_num(..., total_tests=1): the loop ends at the first draw that is
\* not excluded, or after 100 draws that all are.
GenerateNumOnce(num) ==
    {<<value>> : value \in NumDraws(num) \ num.exclude}
    \cup (IF NumDraws(num) \cap num.exclude # {} \/ NumDraws(num) = {}
          THEN {<<>>} ELSE {})

\* generate_string(..., total_tests=1), in the same way.
GenerateStringOnce(text) ==
    {<<value>> : value \in {v \in StringDraws(text) : ~Excluded(v, text.exclude)}}
    \cup (IF \E v \in StringDraws(text) : Excluded(v, text.exclude)
          THEN {<<>>} ELSE {})

\* generate_X(...)[0] for the list a call returned.
FirstOf(returned, value) == IF returned = <<>> THEN Raises ELSE Gives(value)

\* Lines 165-173: a key is generated for the types num, string and
\* bool_or_none, and is None for every other type.
GenerateKey(config) ==
    CASE config.type \in {"num", "string", "bool_or_none"} /\ config.total_tests ->
             {Raises}
      [] config.type = "num" ->
             {FirstOf(r, Num(Head(r \o <<0>>))) : r \in GenerateNumOnce(config.num)}
      [] config.type = "string" ->
             {FirstOf(r, Text(Head(r \o <<<<>>>>))) : r \in GenerateStringOnce(config.text)}
      [] config.type = "bool_or_none" ->
             {FirstOf(r, Head(r \o <<NoneVal>>)) : r \in GenerateBoolOrNone(config.pool, 1)}
      [] OTHER -> {Gives(NoneVal)}

\* dict keys are equal as Python compares them: True is 1 and False is 0.
KeyNumber(key) == IF key.k = "bool" THEN key.n * One ELSE key.n
KeyEq(a, b) ==
    \/ a = b
    \/ a.k \in {"num", "bool"} /\ b.k \in {"num", "bool"} /\ KeyNumber(a) = KeyNumber(b)

\* dict_obj[key] = value
SetItem(items, key, value) ==
    IF \E i \in 1..Len(items) : KeyEq(items[i].e[1], key)
    THEN [i \in 1..Len(items) |->
              IF KeyEq(items[i].e[1], key) THEN List(<<items[i].e[1], value>>)
              ELSE items[i]]
    ELSE Append(items, List(<<key, value>>))

RECURSIVE GenerateElement(_)
RECURSIVE OneArray(_)
RECURSIVE OneDict(_, _, _)

\* Lines 126-139 and 176-188: the value of one element config.
GenerateElement(config) ==
    CASE config.type \in {"num", "string", "bool_or_none", "array", "dict"}
           /\ config.total_tests ->
             {Raises}
      [] config.type \in {"num", "string", "bool_or_none"} -> GenerateKey(config)
      [] config.type = "array" ->
             {IF a.raised THEN Raises ELSE Gives(List(a.value)) :
                  a \in OneArray(config.elements)}
      [] config.type = "dict" ->
             {IF d.raised THEN Raises ELSE Gives(Dict(d.value)) :
                  d \in OneDict(config.keys, config.values, <<>>)}
      [] OTHER -> {Gives(NoneVal)}

\* The rest of an array after its first element.
ThenArray(first, elements) ==
    IF first.raised THEN {Raises}
    ELSE {IF rest.raised THEN Raises ELSE Gives(<<first.value>> \o rest.value) :
              rest \in OneArray(elements)}

\* Lines 124-141: one array, an element for each element config in order.
OneArray(elements) ==
    IF elements = <<>> THEN {Gives(<<>>)}
    ELSE UNION {ThenArray(first, Tail(elements)) :
                    first \in GenerateElement(Head(elements))}

\* The rest of a dict after the item of one key config and one value config.
ThenDict(key, value, keys, values, items) ==
    IF key.raised \/ value.raised THEN {Raises}
    ELSE OneDict(keys, values, SetItem(items, key.value, value.value))

\* Lines 161-190: one dict, an item for each pair of zip(keys, values).
OneDict(keys, values, items) ==
    IF keys = <<>> \/ values = <<>> THEN {Gives(items)}
    ELSE UNION {ThenDict(key, value, Tail(keys), Tail(values), items) :
                    key \in GenerateKey(Head(keys)),
                    value \in GenerateElement(Head(values))}

\* The results after one more array or dict.
ThenResults(results, one) ==
    IF results.raised \/ one.raised THEN Raises
    ELSE Gives(Append(results.value, one.value))

RECURSIVE GenerateArray(_, _)
\* generate_array(elements, total_tests)
GenerateArray(elements, total_tests) ==
    IF total_tests = 0 THEN {Gives(<<>>)}
    ELSE {ThenResults(results, Gives(List(one.value))) :
              results \in GenerateArray(elements, total_tests - 1),
              one \in {a \in OneArray(elements) : ~a.raised}}
         \cup {Raises : one \in {a \in OneArray(elements) : a.raised}}

RECURSIVE GenerateDict(_, _, _)
\* generate_dict(keys, values, total_tests)
GenerateDict(keys, values, total_tests) ==
    IF total_tests = 0 THEN {Gives(<<>>)}
    ELSE {ThenResults(results, Gives(Dict(one.value))) :
              results \in GenerateDict(keys, values, total_tests - 1),
              one \in {d \in OneDict(keys, values, <<>>) : ~d.raised}}
         \cup {Raises : one \in {d \in OneDict(keys, values, <<>>) : d.raised}}

\* Element configs of the model: numbers 1..2, texts "a" and "b", and
\* configs whose exclusions leave no value.
OneOrTwo == NumElement(NumRequest(10, 20, NoDecimal, {}))
JustOne == NumElement(NumRequest(10, 10, NoDecimal, {}))
NoNumber == NumElement(NumRequest(10, 10, NoDecimal, {10}))
Letter == StringElement(StringRequest(1, 1, <<97, 98>>, {}, "none"))
NoLetter == StringElement(StringRequest(0, 1, <<97, 97>>, {<<>>}, "none"))
TrueOrNone == BoolElement({Bool(TRUE), NoneVal})

\* The calls of generate_array the model makes, by their elements.
ArrayRequests ==
    <<<<OneOrTwo, TrueOrNone>>,
      <<>>,
      <<OtherElement, Letter>>,
      <<ArrayElement(<<OneOrTwo, Letter>>)>>,
      <<DictElement(<<Letter>>, <<OneOrTwo>>)>>,
      <<NoNumber>>,
      <<OneOrTwo, NoLetter>>,
      <<BoolElement({})>>,
      <<ArrayElement(<<NoNumber>>)>>,
      <<WithTotalTests(OneOrTwo)>>>>

\* The calls of generate_dict the model makes, by their keys and values.
DictRequests ==
    <<[keys |-> <<Letter>>, values |-> <<OneOrTwo>>],
      [keys |-> <<OneOrTwo, Letter>>, values |-> <<TrueOrNone>>],
      [keys |-> <<JustOne, BoolElement({Bool(TRUE)})>>, values |-> <<OneOrTwo, Letter>>],
      [keys |-> <<ArrayElement(<<>>)>>, values |-> <<ArrayElement(<<OneOrTwo>>)>>],
      [keys |-> <<NoNumber>>, values |-> <<OneOrTwo>>],
      [keys |-> <<Letter>>, values |-> <<NoLetter>>],
      [keys |-> <<Letter>>, values |-> <<DictElement(<<NoNumber>>, <<Letter>>)>>]>>

\* A call of a method that has ended.
Finished(method, config, total_tests, outcome) ==
    [method |-> method, pc |-> IF outcome.raised THEN "raised" ELSE "returned",
     config |-> config, total_tests |-> total_tests,
     results |-> IF outcome.raised THEN <<>> ELSE outcome.value, attempts |-> 0]

\* generate_bool_or_none, lines 95-109, for every choice of the three flags.
GenerateBoolOrNoneCall ==
    /\ generator = NoGeneration
    /\ \E pool \in SUBSET {Bool(TRUE), Bool(FALSE), NoneVal},
          total_tests \in 1..MaxTotalTests :
       \E results \in GenerateBoolOrNone(pool, total_tests) :
           generator' = Finished("generate_bool_or_none", pool, total_tests, Gives(results))
    /\ UNCHANGED <<engine, sandbox>>

\* generate_array, lines 121-145.
GenerateArrayCall ==
    /\ generator = NoGeneration
    /\ \E i \in 1..Len(ArrayRequests), total_tests \in 1..MaxTotalTests :
       \E outcome \in GenerateArray(ArrayRequests[i], total_tests) :
           generator' = Finished("generate_array", ArrayRequests[i], total_tests, outcome)
    /\ UNCHANGED <<engine, sandbox>>

\* generate_dict, lines 158-194.
GenerateDictCall ==
    /\ generator = NoGeneration
    /\ \E i \in 1..Len(DictRequests), total_tests \in 1..MaxTotalTests :
       \E outcome \in GenerateDict(DictRequests[i].keys, DictRequests[i].values,
                                   total_tests) :
           generator' = Finished("generate_dict", DictRequests[i], total_tests, outcome)
    /\ UNCHANGED <<engine, sandbox>>

\* The caller has taken what the method returned or raised.
GeneratorIdle ==
    /\ generator # NoGeneration
    /\ generator.pc \in {"returned", "raised"}
    /\ generator' = NoGeneration
    /\ UNCHANGED <<engine, sandbox>>

NextGen ==
    \/ GenerateNumCall
    \/ GenerateNumAttempt
    \/ GenerateStringCall
    \/ GenerateStringAttempt
    \/ GenerateReturn
    \/ GenerateBoolOrNoneCall
    \/ GenerateArrayCall
    \/ GenerateDictCall
    \/ GeneratorIdle

SpecGen == Init /\ [][NextGen]_vars

(***************************************************************************)
(* One Grader object used directly: add_test and generate_test_calls in    *)
(* any order, any number of times.                                         *)
(***************************************************************************)
\* Most tests added to one Grader, and most entries its metadata holds when
\* generate_test_calls is called once more.
MaxAdded == 2
MaxMetadata == 3

\* Grader.__init__ on a new folder.
NewGrader ==
    /\ teacher.pc = "idle"
    /\ teacher' = [pc |-> "grader", tests |-> <<>>, test_metadata |-> <<>>]
    /\ UNCHANGED <<files, grading, response, lab, rng, plans, sandbox, generator>>

\* Grader.add_test
AddTest ==
    /\ teacher.pc = "grader"
    /\ Len(teacher.tests) < MaxAdded
    /\ \E test \in TestSpecs :
           teacher' = [teacher EXCEPT !.tests = Append(@, test)]
    /\ UNCHANGED <<files, grading, response, lab, rng, plans, sandbox, generator>>

\* What generate_test_calls leaves for a plan: each planned call has added
\* its entry to self.test_metadata (line 103), which is never emptied, and
\* the two files are written from the calls of this plan and from
\* self.test_metadata unless the planning raised.
GraderWritesPlan(choices, plan) ==
    /\ teacher' = [teacher EXCEPT !.test_metadata = @ \o plan.metadata]
    /\ IF plan.raised
       THEN UNCHANGED <<test_calls_txt, metadata_txt, lab>>
       ELSE /\ test_calls_txt' = [exists |-> TRUE, lines |-> plan.calls]
            /\ metadata_txt' = [exists |-> TRUE,
                                content |-> WriteMetadata(teacher.test_metadata
                                                          \o plan.metadata)]
            /\ lab' = [lab EXCEPT !.tests = teacher.tests, !.choices = choices]

\* Grader.generate_test_calls on the tests added so far.
GraderGenerateTestCalls ==
    /\ teacher.pc = "grader"
    /\ Len(teacher.test_metadata) < MaxMetadata
    /\ \E choices \in ChoicesOfTests(teacher.tests) :
           GraderWritesPlan(choices, PlanTests(teacher.tests, choices))
    /\ UNCHANGED <<solution_py, answer_key_txt, student_folder, grading, response,
                   rng, plans, sandbox, generator>>

NextGrader ==
    \/ NewGrader
    \/ AddTest
    \/ GraderGenerateTestCalls

SpecGrader == Init /\ [][NextGrader]_vars

(***************************************************************************)
(* The synthesized program of one Grader: generate_test_calls, then the    *)
(* harness that generate_answer_key writes and runs, for tests whose       *)
(* tracked parameters have any name.                                       *)
(***************************************************************************)
ParamResults == <<"r", "e", "s", "u", "l", "t", "s">>
ParamRet == <<"r", "e", "t">>

\* Tests with one list or number parameter, tracked or not.
HarnessTests ==
    {Test(MethodF, <<Param(name, <<Lit(value)>>)>>, IF tracked THEN {name} ELSE {}) :
         name \in {ParamA, ParamResults, ParamRet},
         value \in {List(<<2, 1>>), Num(1)},
         tracked \in BOOLEAN}

\* The tests of one Grader: one or two of them.
HarnessConfigs ==
    {<<t>> : t \in HarnessTests} \cup {<<t, u>> : t, u \in HarnessTests}

\* create_test_suite on a new folder: the calls are planned and written, the
\* harness is synthesized for them and run on the solution.
CreateTestSuite ==
    /\ teacher.pc = "idle" /\ ~test_calls_txt.exists
    /\ \E tests \in HarnessConfigs, src \in Solutions :
       \E choices \in ChoicesOfTests(tests) :
       \E plan \in {PlanTests(tests, choices)} :
           /\ ~plan.raised
           /\ solution_py' = [exists |-> TRUE, src |-> src]
           /\ test_calls_txt' = [exists |-> TRUE, lines |-> plan.calls]
           /\ metadata_txt' = [exists |-> TRUE, content |-> WriteMetadata(plan.metadata)]
           /\ lab' = [tests |-> tests, choices |-> choices,
                      run |-> RunProgram(src, WriteTestExecution(plan.calls,
                                                                 plan.metadata))]
    /\ UNCHANGED <<answer_key_txt, student_folder, teacher, grading, response, rng,
                   plans, sandbox, generator>>

SpecHarness == Init /\ [][CreateTestSuite]_vars

(***************************************************************************)
(* What the claims speak of.                                               *)
(***************************************************************************)
\* A grading request that ended, and the outcome the executor returned to it.
GradeEnded == response.op = "grade" /\ response.status # "pending"
ExecutorReturned == GradeEnded /\ response.reads.ran

\* The number of calls the spec gives a test: the longest candidate list, 1
\* for a test without parameters.
ClaimedCount(param_values) ==
    IF param_values = <<>> THEN 1
    ELSE CHOOSE n \in {Len(param_values[j]) : j \in 1..Len(param_values)} :
             \A j \in 1..Len(param_values) : Len(param_values[j]) <= n

RECURSIVE ClaimedBefore(_, _)
\* The number of calls of the tests before test t.
ClaimedBefore(choices, t) ==
    IF t = 1 THEN 0
    ELSE ClaimedBefore(choices, t - 1) + ClaimedCount(choices[t - 1])

\* The test that call idx belongs to.
OwnerOf(choices, idx) ==
    CHOOSE t \in 1..Len(choices) :
        /\ ClaimedBefore(choices, t) < idx
        /\ idx <= ClaimedBefore(choices, t) + ClaimedCount(choices[t])

\* The planning of the lab has run.
Planned == lab.choices # <<>>

\* The records of the trusted run, and those of the answer key and of the
\* candidate's output once they parse.
TrustedRecords == lab.run.stdout[Len(lab.run.stdout)].items
KeyRecords == ParseResults(answer_key_txt.content)
CandidateRecords == ParseResults(response.outcome.stdout)

\* A grading request whose candidate output and answer key both parse as
\* sequences of ResultRecords.
BothParse ==
    /\ ExecutorReturned
    /\ response.outcome.success
    /\ Parses(response.outcome.stdout)
    /\ answer_key_txt.exists
    /\ Parses(answer_key_txt.content)
    /\ \A i \in 1..Len(CandidateRecords) : CandidateRecords[i].wf
    /\ \A i \in 1..Len(KeyRecords) : KeyRecords[i].wf

(***************************************************************************)
(* C1.  Self-grading: when the answer key was built and the submission is  *)
(* the trusted source itself, a grading whose executor run succeeded       *)
(* returns a report with passed = total = the number of planned calls and  *)
(* every diagnostic passed.                                                *)
(***************************************************************************)
C1_SelfGrading ==
    (/\ ExecutorReturned
     /\ response.outcome.success
     /\ answer_key_txt.exists
     /\ student_folder.main_exists
     /\ student_folder.main_py = solution_py.src)
    => /\ response.status = "returned"
       /\ response.report.passed = response.report.total
       /\ response.report.total = Len(test_calls_txt.lines)
       /\ Len(response.report.results) = response.report.total
       /\ \A i \in 1..Len(response.report.results) : response.report.results[i].passed

(***************************************************************************)
(* C2.  The planner emits, for every test, exactly N calls, N the length   *)
(* of the longest candidate list (1 without parameters), and the i-th call *)
(* passes for each parameter, in declaration order, the element i mod the  *)
(* length of its list, whatever the lengths of the lists.                  *)
(***************************************************************************)
C2_PlannerCyclesEveryList ==
    Planned =>
       /\ test_calls_txt.exists
       /\ Len(test_calls_txt.lines) =
              ClaimedBefore(lab.choices, Len(lab.choices) + 1)
       /\ \A t \in 1..Len(lab.tests) :
          \A i \in 0..(ClaimedCount(lab.choices[t]) - 1) :
              LET call == ParseCall(test_calls_txt.lines[
                                        ClaimedBefore(lab.choices, t) + i + 1])
                  pv == lab.choices[t]
              IN  /\ call.ok
                  /\ call.method = lab.tests[t].method
                  /\ Len(call.args) = Len(pv)
                  /\ \A j \in 1..Len(pv) :
                        call.args[j] = Repr(pv[j][(i % Len(pv[j])) + 1])

(***************************************************************************)
(* C3.  Mutation capture: in every record of a run of the harness, the     *)
(* heap_param_values entry of a tracked parameter is the post-call state   *)
(* of the object the function received in that parameter's position.       *)
(***************************************************************************)
C3_MutationCapture ==
    (Planned /\ lab.run.status = "exit0") =>
       \A idx \in 1..Len(lab.run.trace) :
          LET test == lab.tests[OwnerOf(lab.choices, idx)]
          IN  \A j \in 1..Len(test.params) :
                 test.params[j].name \in test.track_mutation =>
                    \E h \in 1..Len(TrustedRecords[idx].heap) :
                       /\ TrustedRecords[idx].heap[h].name = test.params[j].name
                       /\ TrustedRecords[idx].heap[h].text =
                              Repr(lab.run.trace[idx][j])

(***************************************************************************)
(* C4.  When the executor returns an outcome with success = false, the     *)
(* grading returns a report with total = 0, passed = 0, no diagnostics and *)
(* the outcome's stderr as the top-level error.                            *)
(***************************************************************************)
C4_FailedRunIsUngraded ==
    (ExecutorReturned /\ ~response.outcome.success)
    => /\ response.status = "returned"
       /\ response.report.total = 0
       /\ response.report.passed = 0
       /\ response.report.results = <<>>
       /\ response.report.error = response.outcome.stderr

\* A candidate run that timed out, against a key of at least one record, has
\* been answered.
C4_Witness ==
    /\ ExecutorReturned
    /\ ~response.outcome.success
    /\ response.outcome.stderr = "Timeout after 5s"
    /\ response.status = "returned"
    /\ answer_key_txt.exists
    /\ Parses(answer_key_txt.content)
    /\ Len(KeyRecords) > 0

(***************************************************************************)
(* C5.  When the candidate run succeeds but its output does not parse as a *)
(* sequence of ResultRecords, the grading returns the ungraded report      *)
(* (total = 0, passed = 0, a top-level error) instead of raising.          *)
(***************************************************************************)
C5_ParseFailureIsUngraded ==
    (/\ ExecutorReturned
     /\ response.outcome.success
     /\ \/ ~Parses(response.outcome.stdout)
        \/ \E i \in 1..Len(CandidateRecords) : ~CandidateRecords[i].wf)
    => /\ response.status = "returned"
       /\ response.report.total = 0
       /\ response.report.passed = 0
       /\ response.report.error \notin {"", "None"}

(***************************************************************************)
(* C6.  As claimed: when the candidate's records and the answer key differ *)
(* in length, grading pairs them by index up to the shorter length, raises *)
(* no error, and reports total = the number of compared pairs, which is    *)
(* the length of the diagnostics list.                                     *)
(***************************************************************************)
Shorter == Min(Len(CandidateRecords), Len(KeyRecords))

PairedByIndex ==
    /\ response.status = "returned"
    /\ response.report.error = "None"
    /\ Len(response.report.results) = Shorter
    /\ \A i \in 1..Shorter :
          /\ response.report.results[i].test = i
          /\ response.report.results[i].got_return = CandidateRecords[i].return_value
          /\ response.report.results[i].expected_return = KeyRecords[i].return_value
          /\ response.report.results[i].got_heap = CandidateRecords[i].heap_param_values
          /\ response.report.results[i].expected_heap = KeyRecords[i].heap_param_values

C6_TotalIsComparedPairs ==
    (BothParse /\ Len(CandidateRecords) # Len(KeyRecords))
    => /\ PairedByIndex
       /\ response.report.total = Shorter

(***************************************************************************)
(* C6, amended.  When the candidate's records and the answer key differ in *)
(* length, grading pairs them by index up to the shorter length, raises no *)
(* error and emits one diagnostic per compared pair, and reports total =   *)
(* the length of the answer key, whatever the number of compared pairs.    *)
(***************************************************************************)
C6_TotalIsKeyLength ==
    (BothParse /\ Len(CandidateRecords) # Len(KeyRecords))
    => /\ PairedByIndex
       /\ response.report.total = Len(KeyRecords)

\* A candidate with fewer records than the key has been graded: total counts
\* the records that were never compared.
C6_Witness ==
    /\ BothParse
    /\ 0 < Len(CandidateRecords)
    /\ Len(CandidateRecords) < Len(KeyRecords)
    /\ response.status = "returned"
    /\ response.report.total > Len(response.report.results)

(***************************************************************************)
(* C7.  For each compared pair the diagnostic's passed flag is true        *)
(* exactly when the return values are structurally equal and the heap      *)
(* mappings are structurally equal, a boolean never being equal to a       *)
(* number; passed counts the flags that are true; one diagnostic with the  *)
(* expected and actual values of both fields is emitted per pair, in call  *)
(* order.                                                                  *)
(***************************************************************************)
C7_PassedIsStructuralEquality ==
    BothParse
    => /\ PairedByIndex
       /\ \A i \in 1..Shorter :
             response.report.results[i].passed =
                 (/\ CandidateRecords[i].return_value = KeyRecords[i].return_value
                  /\ CandidateRecords[i].heap_param_values =
                         KeyRecords[i].heap_param_values)
       /\ response.report.passed =
              Cardinality({i \in 1..Shorter : response.report.results[i].passed})

(***************************************************************************)
(* C9.  If the trusted run exits non-zero or times out, or its output does *)
(* not parse as one sequence of ResultRecords, no answer key is persisted; *)
(* an answer key file exists only if its content parses as a sequence of   *)
(* ResultRecords with one record per planned call.                         *)
(***************************************************************************)
C9_KeyOnlyIfItParses ==
    /\ (\/ lab.run.status \in {"failed", "exited", "timeout"}
        \/ lab.run.status = "exit0" /\ ~Parses(lab.run.stdout))
       => ~answer_key_txt.exists
    /\ answer_key_txt.exists
       => /\ Parses(answer_key_txt.content)
          /\ Len(KeyRecords) = Len(test_calls_txt.lines)

(***************************************************************************)
(* C10.  As claimed: once a lab's answer key has been built no operation   *)
(* modifies or removes it or the planned calls, and every grading request  *)
(* reads, from its start to its end, the same planned calls and the answer *)
(* key built from exactly those calls.                                     *)
(***************************************************************************)
\* A grading request that read the answer key read the key built from the
\* calls it read at its start, which are the calls on disk at its end.
GradingReadsOneLab ==
    /\ grading.pc = "run_script" => grading.calls_read = test_calls_txt.lines
    /\ (GradeEnded /\ response.reads.key_read)
       => /\ response.reads.calls = response.reads.key_from
          /\ response.reads.calls = test_calls_txt.lines

C8_PlanningDeterministicGivenSeed ==
    \A p, q \in plans :
        (p.seed = q.seed /\ p.tests = q.tests)
        => /\ p.raised = q.raised
           /\ p.calls = q.calls
           /\ p.metadata = q.metadata


(***************************************************************************)
(* run_script.                                                             *)
(***************************************************************************)
\* run_script has returned a dict to its caller.
RunScriptReturned == sandbox.pc = "done" /\ sandbox.result = "returned"

\* run_script has ended by an exception that reached its caller.
RunScriptRaised == sandbox.pc = "done" /\ sandbox.result = "raised"

\* The text says that the program ran out of time.
TimeoutSpecific(stderr) ==
    stderr = TimeoutDiagnostic(sandbox.timeout) \/ stderr = TimeLimitDiagnostic

\* C11: a program that hangs past the timeout and is stopped, by the tool's
\* own limit or by the limit of subprocess.run, whichever comes first, makes
\* run_script return success = false with a diagnostic that says so and that
\* is not the diagnostic of a program that died otherwise.
C11_HangReportedAsTimeout ==
    (RunScriptReturned /\ sandbox.program = "hang" /\ sandbox.stopped_by # "none")
        => /\ ~sandbox.pending.success
           /\ TimeoutSpecific(sandbox.pending.stderr)
           /\ sandbox.pending.stderr # SignalDiagnostic

\* C12: run_script never raises: whenever the copy into the scratch
\* location, the launch of the isolation tool or the removal of the scratch
\* copy fails (the command is missing, fails or raises), run_script returns
\* success = false with a diagnostic in stderr.
C12_FailureIsReturnedNotRaised ==
    (sandbox.pc = "done" /\ sandbox.failures # {})
        => /\ sandbox.result = "returned"
           /\ ~sandbox.pending.success
           /\ sandbox.pending.stderr # <<>>

C14_OwnNamespaceUnlessNetworkAllowed ==
    sandbox.started => (sandbox.own_netns <=> ~sandbox.allow_network)


(***************************************************************************)
(* TestCaseGenerator.                                                      *)
(***************************************************************************)
\* The method has returned its list.
Generated(method) == generator.method = method /\ generator.pc = "returned"

\* No value occurs twice in the list.
NoDuplicates(results) ==
    \A i, j \in 1..Len(results) : results[i] = results[j] => i = j

\* C15: every value generate_num returns, for integer and for decimal
\* generation and for bounds that are integers or not, lies between lower and
\* upper, is not excluded, and occurs once in the list, also when the list is
\* shorter than requested.
C15_NumbersWithinBounds ==
    Generated("generate_num") =>
        /\ \A i \in 1..Len(generator.results) :
               /\ generator.config.lower <= generator.results[i]
               /\ generator.results[i] <= generator.config.upper
               /\ generator.results[i] \notin generator.config.exclude
        /\ NoDuplicates(generator.results)

\* C16: every text generate_string returns, under each case setting, has a
\* length between lower_len and upper_len and characters whose codes all lie
\* in char_range, neither is nor contains an excluded text, and occurs once
\* in the list.
C16_TextsWithinConstraints ==
    Generated("generate_string") =>
        /\ \A i \in 1..Len(generator.results) :
               /\ Len(generator.results[i]) \in
                      generator.config.lower_len..generator.config.upper_len
               /\ \A c \in 1..Len(generator.results[i]) :
                      generator.results[i][c] \in
                          generator.config.char_range[1]..generator.config.char_range[2]
               /\ ~Excluded(generator.results[i], generator.config.exclude)
        /\ NoDuplicates(generator.results)

\* C17: every generation request, arrays and dicts with nested configs
\* included, ends by returning at most total_tests values after at most
\* 100 * total_tests attempts of a number or text generation, and never by
\* raising: constraints that admit fewer values, or none, give a shorter list.
C17_ShorterListInsteadOfError ==
    generator.method # "none" =>
        /\ generator.pc # "raised"
        /\ generator.attempts <= generator.total_tests * AttemptsPerTest
        /\ Len(generator.results) <= generator.total_tests


(***************************************************************************)
(* One Grader object.                                                      *)
(***************************************************************************)
\* The tracked-value maps of the calls that test_calls.txt holds.
MetadataOfPersistedCalls == PlanTests(lab.tests, lab.choices).metadata

\* C19: after any sequence of add_test and generate_test_calls on one Grader,
\* the metadata in memory and the metadata in the file have as many entries
\* as test_calls.txt has calls, and the i-th entry is the tracked-value map
\* of the i-th call.
C19_MetadataAlignedWithCalls ==
    (teacher.pc = "grader" /\ test_calls_txt.exists) =>
        /\ Len(teacher.test_metadata) = Len(test_calls_txt.lines)
        /\ Len(metadata_txt.content) = Len(test_calls_txt.lines)
        /\ teacher.test_metadata = MetadataOfPersistedCalls
        /\ LoadTestMetadata(metadata_txt.content) = MetadataOfPersistedCalls


(***************************************************************************)
(* The synthesized program.                                                *)
(***************************************************************************)
\* The blocks of the program synthesized for the calls of test_calls.txt.
HarnessBlocks ==
    WriteTestExecution(test_calls_txt.lines,
                       PlanTests(lab.tests, lab.choices).metadata)

\* The names the blocks bind tracked values to.
BoundNames(block) == {block.binds[t].var : t \in 1..Len(block.binds)}

\* C18: each tracked value is bound to a name of its call alone, which is
\* neither the name of another call nor _results nor _ret, so no binding
\* overwrites the records collected or the value returned, and the program
\* prints one ResultRecord for each call, in the order of the calls.
C18_BoundNamesArePrivate ==
    Planned =>
        /\ \A i \in 1..Len(HarnessBlocks) :
               /\ BoundNames(HarnessBlocks[i]) \cap {ResultsName, RetName} = {}
               /\ \A j \in 1..Len(HarnessBlocks) :
                      i # j => BoundNames(HarnessBlocks[i])
                                   \cap BoundNames(HarnessBlocks[j]) = {}
        /\ lab.run.status = "exit0" =>
               /\ Len(TrustedRecords) = Len(HarnessBlocks)
               /\ \A i \in 1..Len(TrustedRecords) : TrustedRecords[i].wf
        /\ (solution_py.src.top = "run" /\ solution_py.src.ret # "opaque")
               => lab.run.status = "exit0"

=============================================================================
